---- MODULE Spec2Model ----
(***************************************************************************)
(* A model of nba_dashboard.py: odds arithmetic, the selected-game label,  *)
(* the team-rating lookup, the injury-aware usage redistribution, the      *)
(* market probabilities and the player-prop projection.                    *)
(*                                                                         *)
(* Python floats are modelled as exact rationals <<n, d>> in lowest terms  *)
(* with d > 0, so that the arithmetic identities the program relies on     *)
(* are checked exactly (the program's own statements hold up to rounding). *)
(***************************************************************************)
EXTENDS Integers, Sequences, FiniteSets, TLC

VARIABLES
    pc,                \* position of the script
    \* ---- usage adjustment (lines 155-195)
    player_ratings,    \* player -> its record of player_ratings.json
    injury_settings,   \* the designations, in the order of selection
    usage_map,         \* original usage per player of the matchup
    adjusted_usage,    \* the allocation the injury loop rewrites
    team_players_map,  \* team -> the players of the matchup on it, in order
    idx,               \* position of the loop over players
    prev_usage,        \* adjusted_usage as the last pass found it
    \* ---- slate, label and ratings lookup (lines 45-105)
    scoreboard,        \* the games the scoreboard returned
    team_ratings,      \* team name -> rating record
    games,             \* the labels built for the select box
    selected_game,     \* the label chosen
    away_team, home_team,
    away_data, home_data,
    players_today,
    \* ---- odds and expected value (lines 15-22)
    prob, odds_input, ev, error,
    \* ---- game markets and prop simulation (lines 229-273, 336-342)
    samples, market_type, side, line, probs,
    sims, prop_line, prop_odds, prob_over, prob_under, ev_over, ev_under,
    \* ---- prop projection (lines 295-324)
    stat_choice, b2b, results

usageVars == <<player_ratings, injury_settings, usage_map, adjusted_usage,
               team_players_map, idx, prev_usage>>
slateVars == <<scoreboard, team_ratings, games, selected_game, away_team,
               home_team, away_data, home_data, players_today>>
oddsVars == <<prob, odds_input, ev, error>>
marketVars == <<samples, market_type, side, line, probs>>
simVars == <<sims, prop_line, prop_odds, prob_over, prob_under, ev_over, ev_under>>
propVars == <<stat_choice, b2b, results>>

vars == <<pc, usageVars, slateVars, oddsVars, marketVars, simVars, propVars>>

\* the value of a variable the part of the script under study never touches
NotUsed == "-"

UsageIdle ==
    /\ player_ratings = NotUsed /\ injury_settings = NotUsed
    /\ usage_map = NotUsed /\ adjusted_usage = NotUsed
    /\ team_players_map = NotUsed /\ idx = NotUsed /\ prev_usage = NotUsed
SlateIdle ==
    /\ scoreboard = NotUsed /\ team_ratings = NotUsed /\ games = NotUsed
    /\ selected_game = NotUsed /\ away_team = NotUsed /\ home_team = NotUsed
    /\ away_data = NotUsed /\ home_data = NotUsed /\ players_today = NotUsed
OddsIdle ==
    prob = NotUsed /\ odds_input = NotUsed /\ ev = NotUsed /\ error = NotUsed
MarketIdle ==
    /\ samples = NotUsed /\ market_type = NotUsed /\ side = NotUsed
    /\ line = NotUsed /\ probs = NotUsed
SimIdle ==
    /\ sims = NotUsed /\ prop_line = NotUsed /\ prop_odds = NotUsed
    /\ prob_over = NotUsed /\ prob_under = NotUsed
    /\ ev_over = NotUsed /\ ev_under = NotUsed
PropIdle == stat_choice = NotUsed /\ b2b = NotUsed /\ results = NotUsed

-----------------------------------------------------------------------------
(* Exact arithmetic standing for Python's float arithmetic *)

Abs(x) == IF x < 0 THEN -x ELSE x

Max(a, b) == IF a >= b THEN a ELSE b

RECURSIVE GCD(_, _)
GCD(a, b) == IF b = 0 THEN a ELSE GCD(b, a % b)

Rat(n, d) ==
    LET g == GCD(Abs(n), Abs(d))
        s == IF d < 0 THEN -1 ELSE 1
    IN  <<(s * n) \div g, (s * d) \div g>>

Zero == <<0, 1>>
One == <<1, 1>>

\* over the least common denominator, to keep the integers small
RAdd(a, b) ==
    LET g == GCD(a[2], b[2])
    IN  Rat(a[1] * (b[2] \div g) + b[1] * (a[2] \div g), (a[2] \div g) * b[2])
RNeg(a) == <<-a[1], a[2]>>
RSub(a, b) == RAdd(a, RNeg(b))
RMul(a, b) ==
    LET x == Rat(a[1], b[2])
        y == Rat(b[1], a[2])
    IN  <<x[1] * y[1], x[2] * y[2]>>
\* defined for b # Zero only
RDiv(a, b) == RMul(a, Rat(b[2], b[1]))
RLt(a, b) == a[1] * b[2] < b[1] * a[2]
RLe(a, b) == a[1] * b[2] <= b[1] * a[2]

RECURSIVE SumSeq(_)
SumSeq(s) == IF s = <<>> THEN Zero ELSE RAdd(s[1], SumSeq(Tail(s)))

InSeq(x, s) == \E i \in 1..Len(s) : s[i] = x

-----------------------------------------------------------------------------
(* Usage adjustment and redistribution: lines 155-195 *)

NumPlayers == 3
MaxDesignations == 2

Players == 1..NumPlayers
MatchupTeams == {"BOS", "LAL"}
UsageVals == {Rat(0, 1), Rat(1, 5), Rat(3, 10)}
LimitedPcts == {50}

Settings ==
    {[status |-> "Out", limited_pct |-> 0]} \cup
    {[status |-> "Limited", limited_pct |-> p] : p \in LimitedPcts}

\* injury_settings is a dict keyed by player: no player is designated twice
Designations ==
    {s \in UNION {[1..k -> [pname : Players, settings : Settings]] :
                      k \in 0..MaxDesignations} :
        \A i, j \in DOMAIN s : i # j => s[i].pname # s[j].pname}

PlayerOrder == [i \in Players |-> i]

TeamPlayers(ratings, team) ==
    SelectSeq(PlayerOrder, LAMBDA p : ratings[p].team = team)

\* a slip: the designated player is not filtered out of the team's list
TeammatesWithSelf(tpm, ratings, pname) == tpm[ratings[pname].team]

Teammates(tpm, ratings, pname) ==
    SelectSeq(tpm[ratings[pname].team], LAMBDA x : x # pname)

UsagesOf(team_players, usage_map_local) ==
    [i \in 1..Len(team_players) |-> usage_map_local[team_players[i]]]

\* a slip: dividing by the size of the whole team, the designated player included
EqualShareWholeTeam(team_players, lost_usage) ==
    RDiv(lost_usage, Rat(Len(team_players) + 1, 1))

EqualShare(team_players, lost_usage) ==
    RDiv(lost_usage, Rat(Max(1, Len(team_players)), 1))

redistribute_lost_usage(team_players, usage_map_local, lost_usage) ==
    LET current == UsagesOf(team_players, usage_map_local)
        total == SumSeq(current)
    IN  IF RLe(total, Zero)
        THEN LET per == EqualShare(team_players, lost_usage)
             IN  [p \in DOMAIN usage_map_local |->
                    IF InSeq(p, team_players)
                    THEN RAdd(usage_map_local[p], per)
                    ELSE usage_map_local[p]]
        ELSE [p \in DOMAIN usage_map_local |->
                IF InSeq(p, team_players)
                THEN RAdd(usage_map_local[p],
                          RMul(lost_usage, RDiv(usage_map_local[p], total)))
                ELSE usage_map_local[p]]

\* a slip: the lost amount read from the original usages, not the current ones
OriginalUsage(pname, adjusted) == usage_map[pname]

CurrentUsage(pname, adjusted) == adjusted[pname]

MarkOut(pname, teammates, adjusted) ==
    LET lost == CurrentUsage(pname, adjusted)
        zeroed == [adjusted EXCEPT ![pname] = Zero]
    IN  IF teammates # <<>> /\ RLt(Zero, lost)
        THEN redistribute_lost_usage(teammates, zeroed, lost)
        ELSE zeroed

MarkLimited(pname, limited_pct, teammates, adjusted) ==
    LET pct == Rat(limited_pct, 100)
        orig == CurrentUsage(pname, adjusted)
        lost == RMul(orig, pct)
        reduced == [adjusted EXCEPT ![pname] = RMul(orig, RSub(One, pct))]
    IN  IF teammates # <<>> /\ RLt(Zero, lost)
        THEN redistribute_lost_usage(teammates, reduced, lost)
        ELSE reduced

InjuryPass(d, tpm, ratings, adjusted) ==
    IF d.pname \notin DOMAIN adjusted
    THEN adjusted
    ELSE LET teammates == Teammates(tpm, ratings, d.pname)
         IN  IF d.settings.status = "Out"
             THEN MarkOut(d.pname, teammates, adjusted)
             ELSE IF d.settings.status = "Limited"
             THEN MarkLimited(d.pname, d.settings.limited_pct, teammates, adjusted)
             ELSE adjusted

RECURSIVE ApplyDesignations(_, _, _, _)
ApplyDesignations(ds, tpm, ratings, adjusted) ==
    IF ds = <<>>
    THEN adjusted
    ELSE ApplyDesignations(Tail(ds), tpm, ratings,
                           InjuryPass(Head(ds), tpm, ratings, adjusted))

InitUsage ==
    /\ pc = "injuries"
    /\ player_ratings \in [Players -> [team : MatchupTeams, usage : UsageVals]]
    /\ injury_settings \in Designations
    /\ usage_map = [p \in Players |-> player_ratings[p].usage]
    /\ adjusted_usage = usage_map
    /\ prev_usage = usage_map
    /\ team_players_map = [t \in MatchupTeams |-> TeamPlayers(player_ratings, t)]
    /\ idx = 1

InjuryLoop ==
    /\ pc = "injuries"
    /\ idx <= Len(injury_settings)
    /\ prev_usage' = adjusted_usage
    /\ adjusted_usage' = InjuryPass(injury_settings[idx], team_players_map,
                                    player_ratings, adjusted_usage)
    /\ idx' = idx + 1
    /\ UNCHANGED <<pc, player_ratings, injury_settings, usage_map, team_players_map>>
    /\ UNCHANGED <<slateVars, oddsVars, marketVars, simVars, propVars>>

UsageTable ==
    /\ pc = "injuries"
    /\ idx > Len(injury_settings)
    /\ pc' = "done"
    /\ UNCHANGED <<usageVars, slateVars, oddsVars, marketVars, simVars, propVars>>

Init ==
    /\ InitUsage
    /\ SlateIdle /\ OddsIdle /\ MarketIdle /\ SimIdle /\ PropIdle

Next == InjuryLoop \/ UsageTable

Spec == Init /\ [][Next]_vars

-----------------------------------------------------------------------------
(* Odds arithmetic: lines 15-22 *)

MaxDen == 21

\* probabilities n/d, 0 <= n <= d <= MaxDen
ProbGrid ==
    {Rat(q[1], q[2]) : q \in {x \in (0..MaxDen) \X (1..MaxDen) : x[1] <= x[2]}}
OddsVals == {-200, -110, 0, 100, 150}

\* the outcome of a call: a value, or the exception it raised
Returned(v) == [raised |-> "none", value |-> v]
Raised(e) == [raised |-> e, value |-> Zero]

\* a slip: the two branches of the conversion exchanged for negative odds
american_to_profit_swapped(odds) ==
    IF odds > 0
    THEN Returned(Rat(odds, 100))
    ELSE IF odds = 0
    THEN Raised("ZeroDivisionError")
    ELSE Returned(Rat(Abs(odds), 100))

\* 100.0 / abs(0) raises ZeroDivisionError
american_to_profit(odds) ==
    IF odds > 0
    THEN Returned(Rat(odds, 100))
    ELSE IF Abs(odds) = 0
    THEN Raised("ZeroDivisionError")
    ELSE Returned(Rat(100, Abs(odds)))

calculate_ev(p, odds) ==
    LET profit == american_to_profit(odds)
    IN  IF profit.raised # "none"
        THEN profit
        ELSE Returned(RSub(RMul(p, profit.value), RSub(One, p)))

InitOdds ==
    /\ pc = "odds"
    /\ prob \in ProbGrid
    /\ odds_input \in OddsVals
    /\ ev = Zero
    /\ error = "none"
    /\ UsageIdle /\ SlateIdle /\ MarketIdle /\ SimIdle /\ PropIdle

CalculateEv ==
    /\ pc = "odds"
    /\ LET r == calculate_ev(prob, odds_input)
       IN  /\ ev' = r.value
           /\ error' = r.raised
           /\ pc' = IF r.raised = "none" THEN "done" ELSE "failed"
    /\ UNCHANGED <<prob, odds_input>>
    /\ UNCHANGED <<usageVars, slateVars, marketVars, simVars, propVars>>

NextOdds == CalculateEv

SpecOdds == InitOdds /\ [][NextOdds]_vars

BreakEven110 == Rat(110, 210)

\* C7: calculate_ev(p, odds) is strictly increasing in p for any non-zero
\* odds; for odds -110 it is 0 at p = 110/210, negative for every smaller p
\* and positive for every larger p.
C7_EvIncreasingBreakEven ==
    (pc = "done" /\ odds_input # 0) =>
        /\ \A q \in ProbGrid :
              /\ RLt(q, prob) => RLt(calculate_ev(q, odds_input).value, ev)
              /\ RLt(prob, q) => RLt(ev, calculate_ev(q, odds_input).value)
        /\ odds_input = -110 =>
              /\ prob = BreakEven110 => ev = Zero
              /\ RLt(prob, BreakEven110) => RLt(ev, Zero)
              /\ RLt(BreakEven110, prob) => RLt(Zero, ev)

C7_Witness ==
    /\ pc = "done"
    /\ odds_input = -110
    /\ prob = BreakEven110
    /\ ev = Zero
    /\ RLt(calculate_ev(Rat(9, 20), -110).value, Zero)

-----------------------------------------------------------------------------
(* Game markets and prop simulation: lines 229-273 and 336-342.  The draws *)
(* are whatever the generator returns; scores are integers here.           *)

NumDraws == 3

Scores == {0, 1}
SampleSets == [1..NumDraws -> Scores \X Scores]
SpreadLines == {-1, 0}
TotalLines == {1, 2}
PropValues == {0, 1, 2}
PropLines == {1}
MarketOdds == {-110, 0, 150}

margins(s) == [i \in DOMAIN s |-> s[i][1] - s[i][2]]
totals(s) == [i \in DOMAIN s |-> s[i][1] + s[i][2]]

\* np.mean(xs > l)
FractionAbove(xs, l) == Rat(Cardinality({i \in DOMAIN xs : xs[i] > l}), Len(xs))

\* np.mean(xs >= l)
FractionAtLeast(xs, l) == Rat(Cardinality({i \in DOMAIN xs : xs[i] >= l}), Len(xs))

\* a slip: the game markets' strict comparison used for the prop as well
PropOverStrict(xs, l) == FractionAbove(xs, l)

PropOver(xs, l) == FractionAtLeast(xs, l)

Complement(p) == RSub(One, p)

InitMarket ==
    /\ pc = "simulate"
    /\ error = "none"
    /\ samples = <<>> /\ market_type = NotUsed /\ side = NotUsed
    /\ line = 0 /\ probs = <<Zero, Zero>> /\ prob = Zero
    \* the session defaults of lines 239 and 290
    /\ odds_input = -110 /\ ev = Zero
    /\ sims = <<>> /\ prop_line = 0 /\ prop_odds = -110
    /\ prob_over = Zero /\ prob_under = Zero /\ ev_over = Zero /\ ev_under = Zero
    /\ UsageIdle /\ SlateIdle /\ PropIdle

\* line 229: the correlated draw
Simulate ==
    /\ pc = "simulate"
    /\ samples' \in SampleSets
    /\ pc' = "market"
    /\ UNCHANGED <<market_type, side, line, probs, oddsVars>>
    /\ UNCHANGED <<usageVars, slateVars, simVars, propVars>>

\* the tail every game market shares: prob of the side, then calculate_ev
GameMarket(type, first, l, p_first, chosen, odds) ==
    LET p_second == Complement(p_first)
        p == IF chosen = first THEN p_first ELSE p_second
        r == calculate_ev(p, odds)
    IN  /\ market_type' = type
        /\ side' = chosen
        /\ line' = l
        /\ odds_input' = odds
        /\ probs' = <<p_first, p_second>>
        /\ prob' = p
        /\ ev' = r.value
        /\ error' = r.raised
        /\ pc' = IF r.raised = "none" THEN "props" ELSE "market_failed"
        /\ UNCHANGED samples
        /\ UNCHANGED <<usageVars, slateVars, simVars, propVars>>

Moneyline ==
    /\ pc = "market"
    /\ \E chosen \in {"Home", "Away"}, odds \in MarketOdds :
          GameMarket("Moneyline", "Home", 0,
                     FractionAbove(margins(samples), 0), chosen, odds)

Spread ==
    /\ pc = "market"
    /\ \E chosen \in {"Home", "Away"}, odds \in MarketOdds, spread_line \in SpreadLines :
          GameMarket("Spread", "Home", spread_line,
                     FractionAbove(margins(samples), spread_line), chosen, odds)

Total ==
    /\ pc = "market"
    /\ \E chosen \in {"Over", "Under"}, odds \in MarketOdds, total_line \in TotalLines :
          GameMarket("Total", "Over", total_line,
                     FractionAbove(totals(samples), total_line), chosen, odds)

\* lines 336-342, for one player of the loop
PropSim ==
    /\ pc = "props"
    /\ \E draws \in [1..NumDraws -> PropValues], l \in PropLines, odds \in MarketOdds :
          LET over == PropOver(draws, l)
              under == Complement(over)
              r_over == calculate_ev(over, odds)
              r_under == calculate_ev(under, odds)
          IN  /\ sims' = draws
              /\ prop_line' = l
              /\ prop_odds' = odds
              /\ prob_over' = over
              /\ prob_under' = under
              /\ ev_over' = r_over.value
              /\ ev_under' = r_under.value
              /\ error' = r_over.raised
              /\ pc' = IF r_over.raised = "none" THEN "done" ELSE "prop_failed"
    /\ UNCHANGED <<prob, odds_input, ev, marketVars>>
    /\ UNCHANGED <<usageVars, slateVars, propVars>>

NextMarket == Simulate \/ Moneyline \/ Spread \/ Total \/ PropSim

SpecMarket == InitMarket /\ [][NextMarket]_vars

GameDone == pc \in {"props", "market_failed", "done", "prop_failed"}
PropDone == pc \in {"done", "prop_failed"}

\* C3: with American odds 0, every market fails with InvalidOdds.
C3_ZeroOddsInvalidOdds ==
    /\ (pc = "market_failed" /\ odds_input = 0) => error = "InvalidOdds"
    /\ (pc = "prop_failed" /\ prop_odds = 0) => error = "InvalidOdds"
    /\ (GameDone /\ odds_input = 0) => pc = "market_failed"
    /\ (PropDone /\ prop_odds = 0) => pc = "prop_failed"

\* the quantity a game market compares with its line
Drawn == IF market_type = "Total" THEN totals(samples) ELSE margins(samples)
CountOf(S) == Rat(Cardinality(S), NumDraws)

\* C6: every draw counts for exactly one side, the two probabilities sum to
\* 1, a game-market draw equal to the line (margin 0 for moneyline) counts
\* for away/under, and a prop draw equal to the line counts for over.
C6_DrawsCountedOnce ==
    /\ GameDone =>
          /\ probs[1] = CountOf({i \in 1..NumDraws : Drawn[i] > line})
          /\ probs[2] = CountOf({i \in 1..NumDraws : Drawn[i] <= line})
          /\ RAdd(probs[1], probs[2]) = One
          /\ market_type = "Moneyline" => line = 0
    /\ PropDone =>
          /\ prob_over = CountOf({i \in 1..NumDraws : sims[i] >= prop_line})
          /\ prob_under = CountOf({i \in 1..NumDraws : sims[i] < prop_line})
          /\ RAdd(prob_over, prob_under) = One

\* a game-market draw on the line and a prop draw on the line, each counted
\* for the side the claim names
C6_Witness ==
    /\ pc = "done"
    /\ market_type = "Spread"
    /\ \E i \in 1..NumDraws : Drawn[i] = line
    /\ \A i \in 1..NumDraws : Drawn[i] <= line
    /\ probs = <<Zero, One>>
    /\ \E i \in 1..NumDraws : sims[i] = prop_line
    /\ \A i \in 1..NumDraws : sims[i] >= prop_line
    /\ prob_over = One /\ prob_under = Zero

-----------------------------------------------------------------------------
(* Slate, selected-game label and ratings lookup: lines 45-105.  Strings   *)
(* the script builds or splits are sequences of characters.                *)

MaxGames == 1

Celtics == <<"C", "e", "l", "t", "i", "c", "s">>
Lakers == <<"L", "a", "k", "e", "r", "s">>
Knicks == <<"K", "n", "i", "c", "k", "s">>
TeamNames == {Celtics, Lakers, Knicks}
\* a game whose teamName is missing carries the empty name
NoName == <<>>
StatusTexts == {<<"F", "i", "n", "a", "l">>, <<"7", ":", "3", "0", " ", "p", "m">>}

default_team == [off |-> 114, def |-> 114, pace |-> 100, volatility |-> 1]

\* the records of team_ratings.json for the teams it holds
TeamRecord(name) ==
    IF name = Celtics
    THEN [off |-> 118, def |-> 110, pace |-> 102, volatility |-> 1]
    ELSE IF name = Lakers
    THEN [off |-> 112, def |-> 113, pace |-> 98, volatility |-> 1]
    ELSE [off |-> 116, def |-> 115, pace |-> 101, volatility |-> 1]

\* player_ratings.json: one player per team
SlatePlayers == <<[team |-> Celtics], [team |-> Lakers], [team |-> Knicks]>>

\* no team plays itself
ScoreboardGames ==
    {g \in [homeTeam : TeamNames \cup {NoName}, awayTeam : TeamNames \cup {NoName},
            gameStatusText : StatusTexts] :
        g.homeTeam # g.awayTeam \/ g.homeTeam = NoName}

At == <<" ", "@", " ">>

\* f"{away} @ {home} ({status})"
Label(game) ==
    game.awayTeam \o At \o game.homeTeam \o <<" ", "(">> \o game.gameStatusText
        \o <<")">>

StartsWith(t, sep) == Len(t) >= Len(sep) /\ SubSeq(t, 1, Len(sep)) = sep

\* str.split(sep): the pieces between the occurrences of sep, left to right
RECURSIVE SplitFrom(_, _, _)
SplitFrom(t, sep, piece) ==
    IF t = <<>>
    THEN <<piece>>
    ELSE IF StartsWith(t, sep)
    THEN <<piece>> \o SplitFrom(SubSeq(t, Len(sep) + 1, Len(t)), sep, <<>>)
    ELSE SplitFrom(Tail(t), sep, Append(piece, Head(t)))

Split(t, sep) == SplitFrom(t, sep, <<>>)

\* dict.get(key, default)
Get(d, key, default) == IF key \in DOMAIN d THEN d[key] ELSE default

\* lines 59-68: the labels of the games that name both teams
RECURSIVE BuildLabels(_)
BuildLabels(game_objects) ==
    IF game_objects = <<>>
    THEN <<>>
    ELSE LET game == Head(game_objects)
         IN  (IF game.homeTeam # NoName /\ game.awayTeam # NoName
              THEN <<Label(game)>>
              ELSE <<>>) \o BuildLabels(Tail(game_objects))

InitSlate ==
    /\ pc = "slate"
    /\ error = "none"
    /\ scoreboard \in UNION {[1..k -> ScoreboardGames] : k \in 0..MaxGames}
    /\ \E held \in SUBSET TeamNames : team_ratings = [n \in held |-> TeamRecord(n)]
    /\ player_ratings = SlatePlayers
    /\ games = <<>> /\ selected_game = <<>>
    /\ away_team = <<>> /\ home_team = <<>>
    /\ away_data = default_team /\ home_data = default_team
    /\ players_today = <<>>
    /\ injury_settings = NotUsed /\ usage_map = NotUsed /\ adjusted_usage = NotUsed
    /\ team_players_map = NotUsed /\ idx = NotUsed /\ prev_usage = NotUsed
    /\ prob = NotUsed /\ odds_input = NotUsed /\ ev = NotUsed
    /\ MarketIdle /\ SimIdle /\ PropIdle

slateFrame ==
    <<player_ratings, injury_settings, usage_map, adjusted_usage, team_players_map,
      idx, prev_usage, prob, odds_input, ev, marketVars, simVars, propVars>>

\* lines 59-72
BuildSlate ==
    /\ pc = "slate"
    /\ games' = BuildLabels(scoreboard)
    /\ pc' = IF games' = <<>> THEN "stopped" ELSE "select"
    /\ UNCHANGED <<scoreboard, team_ratings, selected_game, away_team, home_team,
                   away_data, home_data, players_today, error>>
    /\ UNCHANGED slateFrame

\* lines 74-75: the unpacking fails unless the split has exactly two pieces
SelectGame ==
    /\ pc = "select"
    /\ \E i \in DOMAIN games :
          LET parts == Split(games[i], At)
          IN  /\ selected_game' = games[i]
              /\ IF Len(parts) = 2
                 THEN /\ away_team' = parts[1]
                      /\ home_team' = parts[2]
                      /\ pc' = "ratings"
                      /\ error' = error
                 ELSE /\ UNCHANGED <<away_team, home_team>>
                      /\ pc' = "failed"
                      /\ error' = "ValueError"
    /\ UNCHANGED <<scoreboard, team_ratings, games, away_data, home_data, players_today>>
    /\ UNCHANGED slateFrame

\* lines 81-82
TeamLookup ==
    /\ pc = "ratings"
    /\ away_data' = Get(team_ratings, away_team, default_team)
    /\ home_data' = Get(team_ratings, home_team, default_team)
    /\ pc' = "players"
    /\ UNCHANGED <<scoreboard, team_ratings, games, selected_game, away_team,
                   home_team, players_today, error>>
    /\ UNCHANGED slateFrame

\* lines 98-105
PlayersToday ==
    /\ pc = "players"
    /\ players_today' =
          SelectSeq([i \in DOMAIN player_ratings |-> i],
                    LAMBDA p : player_ratings[p].team \in {home_team, away_team})
    /\ pc' = IF players_today' = <<>> THEN "stopped" ELSE "done"
    /\ UNCHANGED <<scoreboard, team_ratings, games, selected_game, away_team,
                   home_team, away_data, home_data, error>>
    /\ UNCHANGED slateFrame

NextSlate == BuildSlate \/ SelectGame \/ TeamLookup \/ PlayersToday

SpecSlate == InitSlate /\ [][NextSlate]_vars

\* C5: the team names recovered from the selected label are the home and away
\* names of the scoreboard game it was built from, and each side's data is
\* that team's own record when the store holds the team and the default
\* rating exactly when it does not.
C5_SidesFromOwnRecords ==
    \A i \in DOMAIN scoreboard :
        LET game == scoreboard[i]
        IN  (/\ game.homeTeam # NoName /\ game.awayTeam # NoName
             /\ pc \in {"ratings", "players", "done", "stopped"}
             /\ selected_game = Label(game)) =>
                /\ home_team = game.homeTeam
                /\ away_team = game.awayTeam
                /\ pc # "ratings" =>
                      /\ home_data = Get(team_ratings, game.homeTeam, default_team)
                      /\ away_data = Get(team_ratings, game.awayTeam, default_team)

-----------------------------------------------------------------------------
(* Player prop projection: lines 295-324 *)

NumPropPlayers == 2

PropPlayers == 1..NumPropPlayers
StatChoices == {"pts", "reb", "ast", "3pm", "PRA"}
BaseVals == {0, 20}
PropUsages == {Rat(0, 1), Rat(3, 10)}

\* the stores the loop may find: no team, or both teams of the matchup
PropStores ==
    {<<>>,
     [t \in MatchupTeams |-> [off |-> 118, def |-> 110, pace |-> 102, volatility |-> 1]],
     [t \in MatchupTeams |->
         IF t = "BOS"
         THEN [off |-> 118, def |-> 110, pace |-> 102, volatility |-> 1]
         ELSE [off |-> 112, def |-> 113, pace |-> 98, volatility |-> 1]]}

\* lines 307-318
UsageWeight(stat) ==
    IF stat = "pts" THEN Rat(1, 1)
    ELSE IF stat = "ast" THEN Rat(7, 10)
    ELSE IF stat = "reb" THEN Rat(1, 4)
    ELSE IF stat = "3pm" THEN Rat(2, 5)
    ELSE IF stat = "PRA" THEN Rat(3, 5)
    ELSE Zero

UsageScaled(base, u, stat) ==
    RMul(Rat(base, 1), RAdd(One, RMul(u, UsageWeight(stat))))

B2BFactor(flag) == IF flag THEN Rat(97, 100) ELSE One

\* lines 300-324: the projection of one player
Projection(player, team_data, u, stat, flag) ==
    RMul(RMul(RMul(UsageScaled(player.base, u, stat),
                   Rat(team_data.off, 114)),
              Rat(team_data.pace, 100)),
         B2BFactor(flag))

InitProj ==
    /\ pc = "prop_loop"
    /\ home_team \in MatchupTeams
    /\ away_team \in MatchupTeams \ {home_team}
    /\ team_ratings \in PropStores
    /\ player_ratings \in [PropPlayers -> [team : MatchupTeams, base : BaseVals]]
    /\ adjusted_usage \in [PropPlayers -> PropUsages]
    /\ stat_choice \in StatChoices
    /\ b2b \in BOOLEAN
    /\ results = <<>>
    /\ idx = 1
    /\ injury_settings = NotUsed /\ usage_map = NotUsed
    /\ team_players_map = NotUsed /\ prev_usage = NotUsed
    /\ scoreboard = NotUsed /\ games = NotUsed /\ selected_game = NotUsed
    /\ away_data = NotUsed /\ home_data = NotUsed /\ players_today = NotUsed
    /\ OddsIdle /\ MarketIdle /\ SimIdle

projFrame ==
    <<player_ratings, injury_settings, usage_map, adjusted_usage, team_players_map,
      prev_usage, slateVars, oddsVars, marketVars, simVars, stat_choice, b2b>>

\* one turn of the loop of line 299
ProjectPlayer ==
    /\ pc = "prop_loop"
    /\ idx <= NumPropPlayers
    /\ LET player == player_ratings[idx]
           team_data == Get(team_ratings, player.team, default_team)
       IN  results' = Append(results,
                             Projection(player, team_data, adjusted_usage[idx],
                                        stat_choice, b2b))
    /\ idx' = idx + 1
    /\ UNCHANGED pc
    /\ UNCHANGED projFrame

\* lines 356-357
ShowTable ==
    /\ pc = "prop_loop"
    /\ idx > NumPropPlayers
    /\ pc' = "done"
    /\ UNCHANGED <<idx, results>>
    /\ UNCHANGED projFrame

NextProj == ProjectPlayer \/ ShowTable

SpecProj == InitProj /\ [][NextProj]_vars

HomeCourt(p) == IF player_ratings[p].team = home_team THEN Rat(102, 100) ELSE One

\* the projection the claim describes; no injury impact is supplied, so that
\* factor is 1
ClaimedProjection(p) ==
    LET team_data == Get(team_ratings, player_ratings[p].team, default_team)
    IN  RMul(RMul(RMul(RMul(UsageScaled(player_ratings[p].base, adjusted_usage[p],
                                        stat_choice),
                            Rat(team_data.off, 114)),
                       Rat(team_data.pace, 100)),
                  HomeCourt(p)),
             B2BFactor(b2b))

OtherwiseIdentical(p, q) ==
    /\ player_ratings[p].base = player_ratings[q].base
    /\ adjusted_usage[p] = adjusted_usage[q]
    /\ Get(team_ratings, player_ratings[p].team, default_team)
          = Get(team_ratings, player_ratings[q].team, default_team)

\* C4: every projection is the usage-scaled base times the team-offense, pace,
\* home-court (1.02 for the home team's players only), back-to-back and
\* injury-impact factors; a home player's projection is 1.02 times that of an
\* otherwise identical away player.
C4_HomeCourtInProjection ==
    pc = "done" =>
        /\ \A p \in PropPlayers : results[p] = ClaimedProjection(p)
        /\ \A p, q \in PropPlayers :
              (/\ player_ratings[p].team = home_team
               /\ player_ratings[q].team = away_team
               /\ OtherwiseIdentical(p, q)) =>
                  results[p] = RMul(Rat(102, 100), results[q])

-----------------------------------------------------------------------------
(* Properties of the usage adjustment *)

Reverse(s) == [i \in 1..Len(s) |-> s[Len(s) + 1 - i]]

RECURSIVE SumOver(_, _)
SumOver(S, f) ==
    IF S = {}
    THEN Zero
    ELSE LET x == CHOOSE y \in S : TRUE
         IN  RAdd(f[x], SumOver(S \ {x}, f))

TeamSum(alloc, t) == SumOver({p \in Players : player_ratings[p].team = t}, alloc)

\* the pass that has just run, read off the state it has left: the designated
\* player, its team, its teammates, the lost amount and the teammates' usages
\* as the pass found them
Passed == pc = "injuries" /\ idx > 1
LastPass ==
    LET d == injury_settings[idx - 1]
        team == player_ratings[d.pname].team
        mates == {p \in Players : player_ratings[p].team = team /\ p # d.pname}
    IN  [pname |-> d.pname,
         team |-> team,
         mates |-> mates,
         lost |-> IF d.settings.status = "Out"
                  THEN prev_usage[d.pname]
                  ELSE RMul(prev_usage[d.pname], Rat(d.settings.limited_pct, 100)),
         msum |-> SumOver(mates, prev_usage)]
Gain(p) == RSub(adjusted_usage[p], prev_usage[p])
\* what the players of `mates` received in all
GainSum(mates) == RSub(SumOver(mates, adjusted_usage), SumOver(mates, prev_usage))

\* C1: after the injury loop, each team's adjusted usage sums to the team's
\* original usage, for any roster (a team of one player included) and any
\* sequence of designations.
C1_TeamUsageConserved ==
    pc = "done" =>
        \A t \in MatchupTeams : TeamSum(adjusted_usage, t) = TeamSum(usage_map, t)

\* C2: after all designations have been applied, every player designated Out
\* has usage exactly 0.
C2_OutPlayersAtZero ==
    pc = "done" =>
        \A i \in DOMAIN injury_settings :
            injury_settings[i].settings.status = "Out"
                => adjusted_usage[injury_settings[i].pname] = Zero

\* C8: when the k >= 1 teammates of the designated player have usages summing
\* to 0 or less and the lost usage is positive, each teammate receives exactly
\* lost/k and the amounts received sum to the lost amount.
C8_EqualSplitFallback ==
    Passed =>
        LET lp == LastPass
        IN  (lp.mates # {} /\ RLe(lp.msum, Zero) /\ RLt(Zero, lp.lost)) =>
                /\ \A p \in lp.mates :
                      Gain(p) = RDiv(lp.lost, Rat(Cardinality(lp.mates), 1))
                /\ GainSum(lp.mates) = lp.lost

C8_Witness ==
    /\ Passed
    /\ Cardinality(LastPass.mates) >= 2
    /\ RLe(LastPass.msum, Zero)
    /\ RLt(Zero, LastPass.lost)
    /\ \A p \in LastPass.mates : RLt(Zero, Gain(p))

\* the part of C9 that holds of every pass: the designated player keeps its
\* usage less the lost amount and receives nothing, and no usage changes on
\* the other team
PassFrame(lp) ==
    /\ adjusted_usage[lp.pname] = RSub(prev_usage[lp.pname], lp.lost)
    /\ \A p \in Players :
          player_ratings[p].team # lp.team => adjusted_usage[p] = prev_usage[p]

ProportionalGain(lp, p) == RMul(lp.lost, RDiv(prev_usage[p], lp.msum))

\* C9 as stated: a pass changes only the designated player and its teammates,
\* and each teammate grows by lost * (its usage / the teammates' sum). The
\* quotient has a value only when that sum is not 0; a pass that loses
\* nothing is read as growing nobody.
C9_AsStated ==
    Passed =>
        LET lp == LastPass
        IN  /\ PassFrame(lp)
            /\ \A p \in lp.mates :
                  IF lp.lost = Zero
                  THEN Gain(p) = Zero
                  ELSE lp.msum # Zero /\ Gain(p) = ProportionalGain(lp, p)

\* C9 as amended: a pass changes only the designated player and its
\* teammates; when the teammates' usages sum to more than 0, each teammate
\* grows by lost * (its usage / that sum); the designated player receives
\* nothing and the other team is unchanged.
C9_ProportionalWhenPositive ==
    Passed =>
        LET lp == LastPass
        IN  /\ PassFrame(lp)
            /\ RLt(Zero, lp.msum) =>
                  \A p \in lp.mates : Gain(p) = ProportionalGain(lp, p)

\* a pass that lost something, with a teammate that grew by its share and a
\* player of the other team holding usage
C9_Witness ==
    /\ Passed
    /\ RLt(Zero, LastPass.lost)
    /\ RLt(Zero, LastPass.msum)
    /\ \E p \in LastPass.mates :
          RLt(Zero, Gain(p)) /\ Gain(p) = ProportionalGain(LastPass, p)
    /\ \E p \in Players :
          /\ player_ratings[p].team # LastPass.team
          /\ RLt(Zero, prev_usage[p])
          /\ adjusted_usage[p] = prev_usage[p]

\* C10: each pass works on the allocation the pass before it left: the lost
\* amount is taken from the designated player's usage in that allocation, the
\* player keeps the rest, and the teammates' shares of it follow their usages
\* in that allocation.
C10_EachPassOnPreviousOutput ==
    Passed =>
        LET lp == LastPass
        IN  /\ adjusted_usage[lp.pname] = RSub(prev_usage[lp.pname], lp.lost)
            /\ (lp.mates # {} /\ RLt(Zero, lp.lost)) => GainSum(lp.mates) = lp.lost
            /\ \A p \in lp.mates :
                  \/ RLe(lp.msum, Zero)
                  \/ RMul(Gain(p), lp.msum) = RMul(lp.lost, prev_usage[p])

\* two designations on one team whose two orders end in different allocations
C10_Witness ==
    /\ pc = "done"
    /\ Len(injury_settings) = 2
    /\ player_ratings[injury_settings[1].pname].team
          = player_ratings[injury_settings[2].pname].team
    /\ prev_usage # usage_map
    /\ adjusted_usage = ApplyDesignations(injury_settings, team_players_map,
                                          player_ratings, usage_map)
    /\ adjusted_usage # ApplyDesignations(Reverse(injury_settings), team_players_map,
                                          player_ratings, usage_map)

====
